---- MODULE Spec2Model ----
(***************************************************************************)
(* A model of the two TypeScript snippets of the repository:               *)
(*   - the person filter (filterPersons, logPerson and the module-level    *)
(*     script that prints the users and the admins of age 23), and         *)
(*   - the counter object (value, increament, decreament) and its script.  *)
(*                                                                         *)
(* JavaScript values are modelled as tagged records [t, v]: t is the       *)
(* run-time type ("string", "number", "undefined") and v the text of the   *)
(* value, so that the number 23 and the string "23" are different values   *)
(* and NaN is a number that is not strictly equal to itself.  A JavaScript *)
(* object is a function from its own property names to values; reading a   *)
(* property the object does not have yields undefined.                     *)
(***************************************************************************)
EXTENDS Integers, Sequences, FiniteSets, TLC

VARIABLES
    persons,        \* the array handed to filterPersons / the module's persons
    personType,     \* the personType argument of the call under study
    criteria,       \* the criteria argument of the call under study
    result,         \* the array the call returned
    criteria2,      \* the criteria of a second call made on the first result
    result2,        \* the array the second call returned
    usersOfAge23,   \* module-level constant of the filter script
    adminsOfAge23,  \* module-level constant of the filter script
    idx,            \* position of the running forEach
    logged,         \* the arguments logPerson was invoked with, in order
    console,        \* the lines written by console.log, in order
    counter,        \* the counter object
    history,        \* the operations performed on the counter, in order
    pc              \* the statement the running script is at

vars == <<persons, personType, criteria, result, criteria2, result2,
          usersOfAge23, adminsOfAge23, idx, logged, console, counter,
          history, pc>>

(***************************************************************************)
(* Bounds of the model.                                                    *)
(***************************************************************************)
MaxLen == 3
MaxOps == 5

(***************************************************************************)
(* JavaScript values.                                                      *)
(***************************************************************************)
Str(s) == [t |-> "string", v |-> s]
Num(s) == [t |-> "number", v |-> s]
NaN == [t |-> "number", v |-> "NaN"]
Undefined == [t |-> "undefined", v |-> "undefined"]

\* a == b, the comparison a slip of one "=" would make
LooseEq(a, b) ==
    /\ a # NaN
    /\ b # NaN
    /\ a.v = b.v
    /\ (a.t = b.t \/ {a.t, b.t} = {"string", "number"})
\* a === b
StrictEq(a, b) == a.t = b.t /\ a.v = b.v /\ a # NaN

\* obj[key]
Lookup(obj, key) == IF key \in DOMAIN obj THEN obj[key] ELSE Undefined

\* `${value}` inside a template literal
TemplateStr(value) == value.v

(***************************************************************************)
(* The data model: User, Admin and the literal persons array.              *)
(***************************************************************************)
User(name, age, occupation) ==
    [type |-> Str("user"), name |-> Str(name), age |-> age,
     occupation |-> Str(occupation)]

Admin(name, age, role) ==
    [type |-> Str("admin"), name |-> Str(name), age |-> age,
     role |-> Str(role)]

Dataset ==
    << User("Max Mustermann", Num("25"), "Chimney sweep"),
       Admin("Jane Doe", Num("32"), "Administrator"),
       User("Kate Müller", Num("23"), "Astronaut"),
       Admin("Bruce Willis", Num("64"), "World saver"),
       User("Wilson", Num("23"), "Ball"),
       Admin("Agent Smith", Num("23"), "Anti-virus engineer") >>

(***************************************************************************)
(* filterPersons.                                                          *)
(***************************************************************************)
\* Object.keys(criteria)
ObjectKeys(obj) == DOMAIN obj

\* faulty variant: the type test left out
TypeIsLoose(person, type) == TRUE
\* first stage: person.type === personType
TypeIs(person, type) == StrictEq(Lookup(person, "type"), type)

\* faulty variant: some() in place of every()
MatchesSome(person, crit) ==
    \E fieldName \in ObjectKeys(crit) :
        StrictEq(Lookup(person, fieldName), Lookup(crit, fieldName))
\* faulty variant: keys the person does not have are skipped
MatchesOwnFields(person, crit) ==
    \A fieldName \in ObjectKeys(crit) \cap DOMAIN person :
        StrictEq(Lookup(person, fieldName), Lookup(crit, fieldName))
\* second stage: criteriaKeys.every(fieldName => person[fieldName] === criteria[fieldName])
Matches(person, crit) ==
    \A fieldName \in ObjectKeys(crit) :
        StrictEq(Lookup(person, fieldName), Lookup(crit, fieldName))

\* faulty variant: the first element is never visited
FilterByTypeSkipFirst(array, type) ==
    SelectSeq(SubSeq(array, 2, Len(array)), LAMBDA person : TypeIs(person, type))
\* persons.filter((person): person is T => person.type === personType):
\* Array.prototype.filter returns a new array of the elements that pass, in
\* their order
FilterByType(array, type) ==
    SelectSeq(array, LAMBDA person : TypeIs(person, type))

\* faulty variant: the last element is never visited
FilterByCriteriaSkipLast(array, crit) ==
    SelectSeq(SubSeq(array, 1, Len(array) - 1),
              LAMBDA person : Matches(person, crit))
\* .filter((person) => criteriaKeys.every(...))
FilterByCriteria(array, crit) ==
    SelectSeq(array, LAMBDA person : Matches(person, crit))

\* faulty variant: the result is built back to front
filterPersonsBackwards(array, type, crit) ==
    LET kept == FilterByCriteria(FilterByType(array, type), crit)
    IN  [i \in 1..Len(kept) |-> kept[Len(kept) + 1 - i]]
\* filterPersons(persons, personType, criteria)
filterPersons(array, type, crit) ==
    FilterByCriteria(FilterByType(array, type), crit)

(***************************************************************************)
(* The inputs the filter is studied on.                                    *)
(***************************************************************************)
Pool ==
    { Dataset[1], Dataset[2], Dataset[3], Dataset[5], Dataset[6],
      User("Nemo", NaN, "Ball") }

SeqsUpTo(S, n) == UNION { [1..k -> S] : k \in 0..n }

PersonTypes == { Str("user"), Str("admin"), Str("guest") }

CriteriaKeys == { "age", "occupation", "role" }

CriteriaValues(key) ==
    CASE key = "age" -> { Num("23"), Str("23"), NaN, Undefined }
      [] key = "occupation" -> { Str("Ball") }
      [] key = "role" -> { Str("Anti-virus engineer"), Undefined }

AllCriteriaValues == UNION { CriteriaValues(key) : key \in CriteriaKeys }

CriteriaSet ==
    UNION { { c \in [K -> AllCriteriaValues] :
                \A key \in K : c[key] \in CriteriaValues(key) } :
            K \in SUBSET CriteriaKeys }

\* c2 has every key of c1, with the same value
Extends(c2, c1) ==
    /\ DOMAIN c1 \subseteq DOMAIN c2
    /\ \A key \in DOMAIN c1 : c2[key] = c1[key]

\* value: 20
InitialValue == 20

\* the script and counter variables, before any statement has run

Idle ==
    /\ usersOfAge23 = << >>
    /\ adminsOfAge23 = << >>
    /\ idx = 0
    /\ logged = << >>
    /\ console = << >>
    /\ counter = [value |-> InitialValue]
    /\ history = << >>

(***************************************************************************)
(* Spec: one call of filterPersons on arbitrary inputs, followed by a      *)
(* second call on its result with criteria that extend the first ones.     *)
(***************************************************************************)
Init ==
    /\ persons \in SeqsUpTo(Pool, MaxLen)
    /\ personType \in PersonTypes
    /\ criteria \in CriteriaSet
    /\ result = << >>
    /\ criteria2 = << >>
    /\ result2 = << >>
    /\ pc = "start"
    /\ Idle

\* faulty variant: the call filters the array it is given in place
FilterCallInPlace ==
    /\ pc = "start"
    /\ persons' = filterPersons(persons, personType, criteria)
    /\ result' = persons'
    /\ pc' = "called"
    /\ UNCHANGED <<personType, criteria, criteria2, result2, usersOfAge23,
                   adminsOfAge23, idx, logged, console, counter, history>>

\* result = filterPersons(persons, personType, criteria)
FilterCall ==
    /\ pc = "start"
    /\ result' = filterPersons(persons, personType, criteria)
    /\ pc' = "called"
    /\ UNCHANGED <<persons, personType, criteria, criteria2, result2,
                   usersOfAge23, adminsOfAge23, idx, logged, console,
                   counter, history>>

\* result2 = filterPersons(result, personType, c2), c2 extending criteria
FilterAgain ==
    /\ pc = "called"
    /\ \E c2 \in CriteriaSet :
        /\ Extends(c2, criteria)
        /\ criteria2' = c2
        /\ result2' = filterPersons(result, personType, c2)
    /\ pc' = "refiltered"
    /\ UNCHANGED <<persons, personType, criteria, result, usersOfAge23,
                   adminsOfAge23, idx, logged, console, counter, history>>

Next == FilterCall \/ FilterAgain

Spec == Init /\ [][Next]_vars

(***************************************************************************)
(* logPerson and the module-level script of the person filter.             *)
(***************************************************************************)
\* faulty variant: the branches of the conditional swapped
logPersonSwapped(person) ==
    " - " \o TemplateStr(Lookup(person, "name")) \o ", "
          \o TemplateStr(Lookup(person, "age")) \o ", "
          \o TemplateStr(IF StrictEq(Lookup(person, "type"), Str("admin"))
                         THEN Lookup(person, "occupation")
                         ELSE Lookup(person, "role"))
\* the line logPerson hands to console.log
logPerson(person) ==
    " - " \o TemplateStr(Lookup(person, "name")) \o ", "
          \o TemplateStr(Lookup(person, "age")) \o ", "
          \o TemplateStr(IF StrictEq(Lookup(person, "type"), Str("admin"))
                         THEN Lookup(person, "role")
                         ELSE Lookup(person, "occupation"))

\* the order-preserving sub-list of Dataset at the positions S
SubList(S) ==
    [i \in 1..Cardinality(S) |->
        Dataset[CHOOSE k \in S : Cardinality({ j \in S : j <= k }) = i]]

\* The script runs on the literal Dataset; the model also runs it on every
\* sub-list of the literal.
MainInit ==
    /\ persons \in { SubList(S) : S \in SUBSET (1..Len(Dataset)) }
    /\ personType = Str("user")
    /\ criteria = << >>
    /\ result = << >>
    /\ criteria2 = << >>
    /\ result2 = << >>
    /\ pc = "L52"
    /\ Idle

MainFilterUsers ==
    /\ pc = "L52"
    /\ usersOfAge23' = filterPersons(persons, Str("user"), [age |-> Num("23")])
    /\ pc' = "L53"
    /\ UNCHANGED <<persons, personType, criteria, result, criteria2, result2,
                   adminsOfAge23, idx, logged, console, counter, history>>

MainFilterAdmins ==
    /\ pc = "L53"
    /\ adminsOfAge23' = filterPersons(persons, Str("admin"), [age |-> Num("23")])
    /\ pc' = "L55"
    /\ UNCHANGED <<persons, personType, criteria, result, criteria2, result2,
                   usersOfAge23, idx, logged, console, counter, history>>

MainUsersHeader ==
    /\ pc = "L55"
    /\ console' = Append(console, "Users of age 23:")
    /\ idx' = 1
    /\ pc' = "L56"
    /\ UNCHANGED <<persons, personType, criteria, result, criteria2, result2,
                   usersOfAge23, adminsOfAge23, logged, counter, history>>

\* one iteration of usersOfAge23.forEach(logPerson)
MainLogUser ==
    /\ pc = "L56"
    /\ idx <= Len(usersOfAge23)
    /\ logged' = Append(logged, usersOfAge23[idx])
    /\ console' = Append(console, logPerson(usersOfAge23[idx]))
    /\ idx' = idx + 1
    /\ UNCHANGED <<persons, personType, criteria, result, criteria2, result2,
                   usersOfAge23, adminsOfAge23, counter, history, pc>>

\* the forEach is over; console.log() writes an empty line
MainBlankLine ==
    /\ pc = "L56"
    /\ idx > Len(usersOfAge23)
    /\ console' = Append(console, "")
    /\ pc' = "L60"
    /\ UNCHANGED <<persons, personType, criteria, result, criteria2, result2,
                   usersOfAge23, adminsOfAge23, idx, logged, counter, history>>

MainAdminsHeader ==
    /\ pc = "L60"
    /\ console' = Append(console, "Admins of age 23:")
    /\ idx' = 1
    /\ pc' = "L61"
    /\ UNCHANGED <<persons, personType, criteria, result, criteria2, result2,
                   usersOfAge23, adminsOfAge23, logged, counter, history>>

\* one iteration of adminsOfAge23.forEach(logPerson)
MainLogAdmin ==
    /\ pc = "L61"
    /\ idx <= Len(adminsOfAge23)
    /\ logged' = Append(logged, adminsOfAge23[idx])
    /\ console' = Append(console, logPerson(adminsOfAge23[idx]))
    /\ idx' = idx + 1
    /\ UNCHANGED <<persons, personType, criteria, result, criteria2, result2,
                   usersOfAge23, adminsOfAge23, counter, history, pc>>

MainEnd ==
    /\ pc = "L61"
    /\ idx > Len(adminsOfAge23)
    /\ pc' = "done"
    /\ UNCHANGED <<persons, personType, criteria, result, criteria2, result2,
                   usersOfAge23, adminsOfAge23, idx, logged, console, counter,
                   history>>

MainNext ==
    \/ MainFilterUsers
    \/ MainFilterAdmins
    \/ MainUsersHeader
    \/ MainLogUser
    \/ MainBlankLine
    \/ MainAdminsHeader
    \/ MainLogAdmin
    \/ MainEnd

SpecMain == MainInit /\ [][MainNext]_vars

(***************************************************************************)
(* The counter object and the operations of its script.                    *)
(***************************************************************************)
CounterInit ==
    /\ persons = << >>
    /\ personType = Str("user")
    /\ criteria = << >>
    /\ result = << >>
    /\ criteria2 = << >>
    /\ result2 = << >>
    /\ pc = "counter"
    /\ Idle

\* counter.increament(): this.value++
Increament ==
    /\ Len(history) < MaxOps
    /\ counter' = [counter EXCEPT !.value = @ + 1]
    /\ history' = Append(history, "increament")
    /\ UNCHANGED <<persons, personType, criteria, result, criteria2, result2,
                   usersOfAge23, adminsOfAge23, idx, logged, console, pc>>

\* faulty variant: decreament counting up
DecreamentUp ==
    /\ Len(history) < MaxOps
    /\ counter' = [counter EXCEPT !.value = @ + 1]
    /\ history' = Append(history, "decreament")
    /\ UNCHANGED <<persons, personType, criteria, result, criteria2, result2,
                   usersOfAge23, adminsOfAge23, idx, logged, console, pc>>

\* counter.decreament(): this.value--
Decreament ==
    /\ Len(history) < MaxOps
    /\ counter' = [counter EXCEPT !.value = @ - 1]
    /\ history' = Append(history, "decreament")
    /\ UNCHANGED <<persons, personType, criteria, result, criteria2, result2,
                   usersOfAge23, adminsOfAge23, idx, logged, console, pc>>

\* console.log(counter.value)
LogValue ==
    /\ Len(history) < MaxOps
    /\ console' = Append(console, ToString(counter.value))
    /\ history' = Append(history, "log")
    /\ UNCHANGED <<persons, personType, criteria, result, criteria2, result2,
                   usersOfAge23, adminsOfAge23, idx, logged, counter, pc>>

CounterNext == Increament \/ Decreament \/ LogValue

SpecCounter == CounterInit /\ [][CounterNext]_vars

(***************************************************************************)
(* Vocabulary of the properties, stated without the operators above.       *)
(***************************************************************************)
\* the value a record holds for a field; a field it lacks reads as undefined
FieldOf(record, key) ==
    IF key \in DOMAIN record THEN record[key] ELSE Undefined

\* strict equality of two values: same type, same value, and NaN equals nothing
SameStrict(a, b) == a = b /\ a # NaN

Satisfies(record, crit) ==
    \A key \in DOMAIN crit : SameStrict(FieldOf(record, key), crit[key])

HasType(record, type) == record.type = type

Occurrences(seq, x) == Cardinality({ i \in 1..Len(seq) : seq[i] = x })

IsSubsequence(s, t) ==
    \E f \in [1..Len(s) -> 1..Len(t)] :
        /\ \A i, j \in 1..Len(s) : i < j => f[i] < f[j]
        /\ \A i \in 1..Len(s) : s[i] = t[f[i]]

Called == pc \in {"called", "refiltered"}

NoCriteria == << >>

Age23 == [age |-> Num("23")]

\* C1: with non-empty criteria, every record of the result has the requested
\* type and, for every key of the criteria, a field value strictly equal to
\* the criteria's value (first call and second call alike).
C1_ResultSatisfiesCriteria ==
    /\ (Called /\ DOMAIN criteria # {}) =>
          \A i \in 1..Len(result) :
              HasType(result[i], personType) /\ Satisfies(result[i], criteria)
    /\ (pc = "refiltered" /\ DOMAIN criteria2 # {}) =>
          \A i \in 1..Len(result2) :
              HasType(result2[i], personType) /\ Satisfies(result2[i], criteria2)

C1_Witness ==
    /\ pc = "called"
    /\ Cardinality(DOMAIN criteria) = 2
    /\ "age" \in DOMAIN criteria
    /\ Len(result) = 1
    /\ Len(persons) = 3
    /\ \A i \in 1..3 : HasType(persons[i], personType)

\* C2: with empty criteria the result is exactly the records of the requested
\* type, in their original order.
C2_EmptyCriteriaKeepsVariant ==
    (Called /\ DOMAIN criteria = {}) =>
        result = SelectSeq(persons, LAMBDA p : p.type = personType)

C2_Witness ==
    /\ pc = "called"
    /\ DOMAIN criteria = {}
    /\ Len(persons) = 3
    /\ Len(result) = 2
    /\ result[1] # result[2]
    /\ result[1].age # result[2].age

\* C3: every record of the input that has the requested type and satisfies
\* the criteria occurs in the result as often as in the input, and no record
\* of another type occurs in it; filtering [Max, Jane, Kate] for users of
\* age 23 returns exactly [Kate].
C3_Completeness ==
    Called =>
        /\ \A i \in 1..Len(persons) :
              (HasType(persons[i], personType) /\ Satisfies(persons[i], criteria))
                  => Occurrences(result, persons[i]) = Occurrences(persons, persons[i])
        /\ \A j \in 1..Len(result) : HasType(result[j], personType)
        /\ (/\ persons = <<Dataset[1], Dataset[2], Dataset[3]>>
            /\ personType = Str("user")
            /\ criteria = Age23) => result = <<Dataset[3]>>

C3_Witness ==
    /\ pc = "called"
    /\ personType = Str("user")
    /\ criteria = Age23
    /\ persons = <<Dataset[5], Dataset[6], Dataset[5]>>
    /\ result = <<Dataset[5], Dataset[5]>>

\* C4: the result is a subsequence of the input (same relative order, no
\* record more often than in the input).
C4_ResultIsSubsequence ==
    /\ Called => IsSubsequence(result, persons)
    /\ pc = "refiltered" => IsSubsequence(result2, result)

C4_Witness ==
    /\ pc = "called"
    /\ Len(persons) = 3
    /\ Len(result) = 2
    /\ result[1] # result[2]
    /\ result = <<persons[1], persons[3]>>

\* C5: a type that no record of the input has yields the empty result,
\* whatever the criteria.
C5_UnknownTypeYieldsEmpty ==
    (Called /\ \A i \in 1..Len(persons) : persons[i].type # personType)
        => result = << >>

C5_Witness ==
    /\ pc = "called"
    /\ personType = Str("guest")
    /\ Len(persons) = 3
    /\ DOMAIN criteria = {}
    /\ result = << >>

\* C6: filtering a result again with criteria that extend the first ones
\* gives what filtering the input with the extended criteria gives; with the
\* same criteria the result is returned unchanged.
C6_RefilterEqualsCombined ==
    pc = "refiltered" =>
        /\ result2 = filterPersons(persons, personType, criteria2)
        /\ (criteria2 = criteria => result2 = result)

C6_Witness ==
    /\ pc = "refiltered"
    /\ DOMAIN criteria # {}
    /\ criteria2 # criteria
    /\ result2 # << >>
    /\ Len(result2) < Len(result)
    /\ Len(result) < Len(persons)

\* C7: a criteria key that a record lacks excludes the record unless the
\* criteria value for that key is undefined, in which case the key does not
\* constrain the record.
C7_ForeignKeyNeverMatches ==
    Called =>
        /\ \A j \in 1..Len(result) : \A key \in DOMAIN criteria :
              key \notin DOMAIN result[j] => criteria[key] = Undefined
        /\ \A i \in 1..Len(persons) :
              (/\ HasType(persons[i], personType)
               /\ \A key \in DOMAIN criteria :
                     IF key \in DOMAIN persons[i]
                     THEN SameStrict(persons[i][key], criteria[key])
                     ELSE criteria[key] = Undefined)
                  => \E j \in 1..Len(result) : result[j] = persons[i]

C7_Witness ==
    /\ pc = "called"
    /\ personType = Str("user")
    /\ criteria = [age |-> Num("23"), role |-> Str("Anti-virus engineer")]
    /\ \E i \in 1..Len(persons) : persons[i] = Dataset[5]
    /\ \E i \in 1..Len(persons) : persons[i] = Dataset[6]
    /\ result = << >>

\* C8: a call changes neither the array it is given nor the criteria: the
\* first call leaves persons and criteria as they were, the second leaves the
\* first result as it was.
C8_CallsLeaveInputsUnchanged ==
    [][/\ persons' = persons
       /\ criteria' = criteria
       /\ personType' = personType
       /\ (pc = "called" => result' = result)]_vars

C8_Witness ==
    /\ pc = "refiltered"
    /\ Len(persons) = 3
    /\ Len(result) = 2
    /\ Len(result2) = 1

\* the line of one record: name, age and the field of its variant
ExpectedLine(record) ==
    " - " \o record.name.v \o ", " \o record.age.v \o ", "
          \o (IF record.type = Str("admin") THEN record.role.v
                                             ELSE record.occupation.v)

ExpectedUsers == SelectSeq(persons, LAMBDA p : p.type = Str("user") /\ p.age = Num("23"))

ExpectedAdmins == SelectSeq(persons, LAMBDA p : p.type = Str("admin") /\ p.age = Num("23"))

ExpectedConsole ==
    <<"Users of age 23:">>
        \o [i \in 1..Len(ExpectedUsers) |-> ExpectedLine(ExpectedUsers[i])]
        \o <<"", "Admins of age 23:">>
        \o [i \in 1..Len(ExpectedAdmins) |-> ExpectedLine(ExpectedAdmins[i])]

IsPrefix(s, t) == Len(s) <= Len(t) /\ s = SubSeq(t, 1, Len(s))

\* C9: logPerson is invoked once per record of each result, in result order,
\* each time writing the record's line; the console holds the users' header,
\* the users' lines, an empty line, the admins' header and the admins' lines,
\* in this order.
C9_ConsoleOutput ==
    /\ IsPrefix(console, ExpectedConsole)
    /\ IsPrefix(logged, ExpectedUsers \o ExpectedAdmins)
    /\ pc = "done" =>
          /\ console = ExpectedConsole
          /\ logged = usersOfAge23 \o adminsOfAge23
          /\ logged = ExpectedUsers \o ExpectedAdmins
          /\ persons = Dataset =>
                console = << "Users of age 23:",
                             " - Kate Müller, 23, Astronaut",
                             " - Wilson, 23, Ball",
                             "",
                             "Admins of age 23:",
                             " - Agent Smith, 23, Anti-virus engineer" >>

C9_Witness ==
    /\ pc = "done"
    /\ persons = Dataset
    /\ Len(logged) = 3
    /\ Len(console) = 6

CountOf(seq, op) == Cardinality({ i \in 1..Len(seq) : seq[i] = op })

ValueAfter(seq) ==
    InitialValue + CountOf(seq, "increament") - CountOf(seq, "decreament")

LogPositions(seq) == { i \in 1..Len(seq) : seq[i] = "log" }

\* C10: the counter's value is 20 plus the number of increament calls minus
\* the number of decreament calls, the calls change nothing else, and the
\* script (increament, log, decreament, log) logs 21 and then 20.
C10_CounterValue ==
    pc = "counter" =>
        /\ counter = [value |-> ValueAfter(history)]
        /\ Len(console) = Cardinality(LogPositions(history))
        /\ \A i \in LogPositions(history) :
              console[Cardinality({ j \in LogPositions(history) : j <= i })]
                  = ToString(ValueAfter(SubSeq(history, 1, i)))
        /\ history = <<"increament", "log", "decreament", "log">>
              => console = <<"21", "20">>

C10_Witness ==
    /\ pc = "counter"
    /\ history = <<"increament", "log", "decreament", "log">>
    /\ counter.value = InitialValue
    /\ console = <<"21", "20">>

====
